---- MODULE Spec2Model ----
(***************************************************************************)
(* Model of the three documentation scripts:                               *)
(*   convert_md_to_html.py  (mermaid-preserving Markdown -> HTML)          *)
(*   convert_md_to_pdf.py   (Markdown -> HTML -> PDF)                      *)
(*   open_html_for_pdf.py   (open the HTML in the browser)                 *)
(* Text is a sequence of tokens.  A token stands for a fixed piece of      *)
(* text that the scripts treat as a unit: the fence "```", the word        *)
(* "mermaid", a newline, the placeholder stem, one decimal digit, ...      *)
(***************************************************************************)
EXTENDS Naturals, Sequences, FiniteSets

\* ------------------------------------------------------------------ bounds
MaxSegs == 3
MaxPad == 9
MaxDepth == 2

\* ------------------------------------------------------------------ tokens
\* the three-backtick fence
F == "FENCE"
M == "mermaid"
NL == "\n"
PH == "MERMAID_PLACEHOLDER_"
PY == "python"
DIVOPEN == "<div class=\"mermaid\">"
DIVCLOSE == "</div>"

DigitTok == <<"0", "1", "2", "3", "4", "5", "6", "7", "8", "9">>

\* str(i) of a non-negative integer, as the f-string {i} formats it
RECURSIVE Str(_)
Str(n) ==
    IF n < 10 THEN <<DigitTok[n + 1]>>
    ELSE Str(n \div 10) \o <<DigitTok[(n % 10) + 1]>>

\* ------------------------------------------------------------------ str
\* s[p:].startswith(pat), p 1-based
MatchAt(s, p, pat) ==
    /\ p + Len(pat) - 1 <= Len(s)
    /\ \A k \in 1..Len(pat) : s[p + k - 1] = pat[k]

Occurs(pat, s) == \E p \in 1..Len(s) : MatchAt(s, p, pat)

RECURSIVE ReplaceFrom(_, _, _, _)
ReplaceFrom(s, old, new, p) ==
    IF p > Len(s) THEN <<>>
    ELSE IF MatchAt(s, p, old) THEN new \o ReplaceFrom(s, old, new, p + Len(old))
    ELSE <<s[p]>> \o ReplaceFrom(s, old, new, p + 1)

\* str.replace(old, new): every non-overlapping occurrence, left to right
Replace(s, old, new) == ReplaceFrom(s, old, new, 1)

RECURSIVE CountFrom(_, _, _)
CountFrom(s, old, p) ==
    IF p > Len(s) THEN 0
    ELSE IF MatchAt(s, p, old) THEN 1 + CountFrom(s, old, p + Len(old))
    ELSE CountFrom(s, old, p + 1)

\* the number of occurrences str.replace(old, ...) rewrites
Count(s, old) == CountFrom(s, old, 1)

\* ------------------------------------------------------------------ scan
OPENING == <<F, M, NL>>
CLOSING == <<NL, F>>

\* a pattern that also takes the end of the text for the closing fence
RECURSIVE ClosingOrEndFrom(_, _)
ClosingOrEndFrom(s, q) ==
    IF q > Len(s) THEN Len(s) + 1
    ELSE IF MatchAt(s, q, CLOSING) THEN q
    ELSE ClosingOrEndFrom(s, q + 1)

\* the lazy (.*?) of the pattern: the first "\n```" at or after position q
RECURSIVE ClosingFrom(_, _)
ClosingFrom(s, q) ==
    IF q + 1 > Len(s) THEN 0
    ELSE IF MatchAt(s, q, CLOSING) THEN q
    ELSE ClosingFrom(s, q + 1)

\* the spans <<first, last>> of the non-overlapping matches of
\* r'```mermaid\n(.*?)\n```' with re.DOTALL, left to right
RECURSIVE FindSpansFrom(_, _)
FindSpansFrom(s, p) ==
    IF p > Len(s) THEN <<>>
    ELSE LET q == IF MatchAt(s, p, OPENING) THEN ClosingFrom(s, p + 3) ELSE 0
         IN  IF q # 0 THEN <<<<p, q + 1>>>> \o FindSpansFrom(s, q + 2)
             ELSE FindSpansFrom(s, p + 1)

FindSpans(s) == FindSpansFrom(s, 1)

\* re.findall: the captured group of every match
FindAll(s) ==
    LET spans == FindSpans(s)
    IN  [k \in 1..Len(spans) |-> SubSeq(s, spans[k][1] + 3, spans[k][2] - 2)]

Placeholder(n) == <<PH>> \o Str(n)

Fenced(block) == OPENING \o block \o CLOSING

MermaidDiv(block) == <<DIVOPEN, NL>> \o block \o <<NL, DIVCLOSE>>

\* ------------------------------------------------------------------ renderer
PARA == "<p>"
PARAEND == "</p>"
PRE == "<pre><code>"
PRELANG == "<pre><code class=\"language-"
PRELANGEND == "\">"
PREEND == "</code></pre>"
Langs == {M, PY}

AtLineStart(s, p) == p = 1 \/ s[p - 1] = NL

\* the length of a code fence's opening line at p (fence, optional language,
\* newline), 0 when there is none
FenceHeader(s, p) ==
    IF ~(AtLineStart(s, p) /\ p <= Len(s) /\ s[p] = F) THEN 0
    ELSE IF p + 1 <= Len(s) /\ s[p + 1] = NL THEN 2
    ELSE IF p + 2 <= Len(s) /\ s[p + 1] \in Langs /\ s[p + 2] = NL THEN 3
    ELSE 0

\* the first line at or after q that holds a fence alone
RECURSIVE FenceEndFrom(_, _)
FenceEndFrom(s, q) ==
    IF q > Len(s) THEN 0
    ELSE IF s[q] = F /\ s[q - 1] = NL /\ (q = Len(s) \/ s[q + 1] = NL) THEN q
    ELSE FenceEndFrom(s, q + 1)

RECURSIVE MdFrom(_, _, _, _)
MdFrom(s, p, inPara, fenced) ==
    IF p > Len(s) THEN (IF inPara THEN <<PARAEND>> ELSE <<>>)
    ELSE LET h == IF fenced THEN FenceHeader(s, p) ELSE 0
             q == IF h # 0 THEN FenceEndFrom(s, p + h) ELSE 0
         IN  IF q # 0
             THEN (IF inPara THEN <<PARAEND>> ELSE <<>>)
                  \o (IF h = 3 THEN <<PRELANG, s[p + 1], PRELANGEND>> ELSE <<PRE>>)
                  \o SubSeq(s, p + h, q - 1) \o <<PREEND>>
                  \o MdFrom(s, q + 1, FALSE, fenced)
             ELSE (IF inPara THEN <<>> ELSE <<PARA>>) \o <<s[p]>>
                  \o MdFrom(s, p + 1, TRUE, fenced)

\* markdown.markdown(text, extensions=['tables', 'fenced_code', 'codehilite']):
\* complete code fences become code blocks, other text becomes paragraphs
Markdown(text) == MdFrom(text, 1, FALSE, TRUE)

\* a renderer call that leaves out the fenced_code extension
MarkdownNoFenced(text) == MdFrom(text, 1, FALSE, FALSE)

\* a second renderer call that leaves out the fenced_code extension
PdfMarkdownNoFenced(text) == MdFrom(text, 1, FALSE, FALSE)

\* ------------------------------------------------------------------ inputs
\* the pieces a Markdown source is assembled from
SegText == <<"a", NL>>
SegBlockA == <<F, M, NL, "a", NL, F, NL>>
SegBlockAB == <<F, M, NL, "a", NL, "b", NL, F, NL>>
SegOpen == <<F, M, NL, "a", NL>>
SegPython == <<F, PY, NL, "b", NL, F, NL>>
SegBlockPH == <<F, M, NL, PH, "1", NL, F, NL>>
SegLiteralPH == <<PH, "0", NL>>
SegOpenRunOn == <<F, M, NL, "b">>

\* well-formed pieces that hold no text looking like a placeholder
PlainKinds == {SegText, SegBlockA, SegBlockAB, SegPython}
AllKinds == PlainKinds \cup {SegOpen, SegBlockPH, SegLiteralPH, SegOpenRunOn}

RECURSIVE Flatten(_)
Flatten(segs) == IF segs = <<>> THEN <<>> ELSE Head(segs) \o Flatten(Tail(segs))

RECURSIVE Pad(_)
Pad(k) == IF k = 0 THEN <<>> ELSE SegBlockA \o Pad(k - 1)

\* short documents: every sequence of at most MaxSegs pieces
ShortDocs(kinds) ==
    {Flatten(d) : d \in UNION {[1..n -> kinds] : n \in 0..MaxSegs}}

\* long documents: a piece, MaxPad - 1 or MaxPad copies of one diagram, a piece
LongDocs(kinds) ==
    {h \o Pad(k) \o t : h \in kinds, t \in kinds, k \in {MaxPad - 1, MaxPad}}

Inputs(kinds) == ShortDocs(kinds) \cup LongDocs(kinds)

\* the platforms and working directories the browser script is run on
Platforms == {"Windows", "Linux", "Darwin"}
DirNames == {"home", "docs"}
WorkDirs == UNION {[1..n -> DirNames] : n \in 0..MaxDepth}

\* the HTML file before the run: missing, or left by an earlier run
NoFile == [exists |-> FALSE, content |-> <<>>]
StaleFile == [exists |-> TRUE, content |-> <<"stale">>]

\* ------------------------------------------------------------------ state
VARIABLES
    source,            \* the Markdown file's text
    pc,                \* convert_markdown_to_html: where it is
    markdown_content,
    mermaid_blocks,
    i,                 \* the loop index of the running for loop
    html_content,
    html_file,         \* the HTML file: [exists, content]
    inserted,          \* per index, how many occurrences line 17 rewrote
    replaced,          \* per index, how many occurrences line 29 rewrote
    pdf_pc,            \* convert_markdown_to_pdf: where it is
    pdf_markdown,
    pdf_html,
    pdf_file,
    o_pc,              \* open_html_for_pdf: where it is
    platform,          \* platform.system()
    cwd,               \* the working directory, as its directory names
    exists_at_check,   \* what os.path.exists returned at line 35
    urls,              \* the URLs handed to webbrowser.open
    folders,           \* the folders handed to explorer
    exit_status

convVars == <<source, pc, markdown_content, mermaid_blocks, i, html_content,
              html_file, inserted, replaced>>
pdfVars == <<pdf_pc, pdf_markdown, pdf_html, pdf_file>>
openVars == <<o_pc, platform, cwd, exists_at_check, urls, folders, exit_status>>
vars == <<convVars, pdfVars, openVars>>

InitConvert(docs) ==
    /\ source \in docs
    /\ pc = "start"
    /\ markdown_content = <<>>
    /\ mermaid_blocks = <<>>
    /\ i = 0
    /\ html_content = <<>>
    /\ html_file \in {NoFile, StaleFile}
    /\ inserted = <<>>
    /\ replaced = <<>>
    /\ pdf_pc = "start"
    /\ pdf_markdown = <<>>
    /\ pdf_html = <<>>
    /\ pdf_file = <<>>

InitOpen(dirs) ==
    /\ o_pc = "start"
    /\ platform \in Platforms
    /\ cwd \in dirs
    /\ exists_at_check = "unchecked"
    /\ urls = <<>>
    /\ folders = <<>>
    /\ exit_status = "running"

\* the converters alone: the browser script is not run
OpenIdle ==
    /\ o_pc = "start"
    /\ platform = "Linux"
    /\ cwd = <<>>
    /\ exists_at_check = "unchecked"
    /\ urls = <<>>
    /\ folders = <<>>
    /\ exit_status = "running"

Init == InitConvert(Inputs(AllKinds)) /\ OpenIdle

InitPlain == InitConvert(Inputs(PlainKinds)) /\ OpenIdle

\* ------------------------------------------------------------------ convert_md_to_html
\* a converter that opens its output before it reads its input
ReadSourceOutputFirst ==
    /\ pc = "start"
    /\ markdown_content' = source
    /\ html_file' = [exists |-> TRUE, content |-> <<>>]
    /\ pc' = "scan"
    /\ UNCHANGED <<source, mermaid_blocks, i, html_content,
                   inserted, replaced, pdfVars, openVars>>

\* lines 7-8: the source is read
ReadSource ==
    /\ pc = "start"
    /\ markdown_content' = source
    /\ pc' = "scan"
    /\ UNCHANGED <<source, mermaid_blocks, i, html_content, html_file,
                   inserted, replaced, pdfVars, openVars>>

\* lines 7-8: open() or read() raises; nothing catches it
ReadFails ==
    /\ pc = "start"
    /\ pc' = "error"
    /\ UNCHANGED <<source, markdown_content, mermaid_blocks, i, html_content,
                   html_file, inserted, replaced, pdfVars, openVars>>

\* line 12
Scan ==
    /\ pc = "scan"
    /\ mermaid_blocks' = FindAll(markdown_content)
    /\ i' = 0
    /\ pc' = "extract"
    /\ UNCHANGED <<source, markdown_content, html_content, html_file,
                   inserted, replaced, pdfVars, openVars>>

\* lines 15-17: one iteration
ExtractStep ==
    /\ pc = "extract"
    /\ i < Len(mermaid_blocks)
    /\ LET block == mermaid_blocks[i + 1]
       IN  /\ markdown_content' =
                Replace(markdown_content, Fenced(block), Placeholder(i))
           /\ inserted' = Append(inserted, Count(markdown_content, Fenced(block)))
    /\ i' = i + 1
    /\ UNCHANGED <<source, pc, mermaid_blocks, html_content, html_file,
                   replaced, pdfVars, openVars>>

\* line 15: the loop is exhausted
ExtractDone ==
    /\ pc = "extract"
    /\ i = Len(mermaid_blocks)
    /\ pc' = "render"
    /\ UNCHANGED <<source, markdown_content, mermaid_blocks, i, html_content,
                   html_file, inserted, replaced, pdfVars, openVars>>

\* lines 20-23: the renderer call of the HTML script
RenderHtml(text) == Markdown(text)

Render ==
    /\ pc = "render"
    /\ html_content' = RenderHtml(markdown_content)
    /\ i' = 0
    /\ pc' = "reinsert"
    /\ UNCHANGED <<source, markdown_content, mermaid_blocks, html_file,
                   inserted, replaced, pdfVars, openVars>>

\* lines 20-23: the renderer raises; nothing catches it
RenderFails ==
    /\ pc = "render"
    /\ pc' = "error"
    /\ UNCHANGED <<source, markdown_content, mermaid_blocks, i, html_content,
                   html_file, inserted, replaced, pdfVars, openVars>>

\* lines 26-29: one iteration
ReinsertStep ==
    /\ pc = "reinsert"
    /\ i < Len(mermaid_blocks)
    /\ LET block == mermaid_blocks[i + 1]
       IN  /\ html_content' =
                Replace(html_content, Placeholder(i), MermaidDiv(block))
           /\ replaced' = Append(replaced, Count(html_content, Placeholder(i)))
    /\ i' = i + 1
    /\ UNCHANGED <<source, pc, markdown_content, mermaid_blocks, html_file,
                   inserted, pdfVars, openVars>>

\* line 26: the loop is exhausted; lines 32-99 build the document
ReinsertDone ==
    /\ pc = "reinsert"
    /\ i = Len(mermaid_blocks)
    /\ pc' = "open"
    /\ UNCHANGED <<source, markdown_content, mermaid_blocks, i, html_content,
                   html_file, inserted, replaced, pdfVars, openVars>>

\* lines 79-99: the document around the rendered content
FullHtml(content) == <<"<html><head>", "<body>">> \o content \o <<"</body></html>">>

\* line 102: open(html_file, 'w') creates or truncates the file
OpenOutput ==
    /\ pc = "open"
    /\ html_file' = [exists |-> TRUE, content |-> <<>>]
    /\ pc' = "write"
    /\ UNCHANGED <<source, markdown_content, mermaid_blocks, i, html_content,
                   inserted, replaced, pdfVars, openVars>>

\* line 103
WriteOutput ==
    /\ pc = "write"
    /\ html_file' = [exists |-> TRUE, content |-> FullHtml(html_content)]
    /\ pc' = "done"
    /\ UNCHANGED <<source, markdown_content, mermaid_blocks, i, html_content,
                   inserted, replaced, pdfVars, openVars>>

ConvertHtml ==
    \/ ReadSource \/ ReadFails \/ Scan \/ ExtractStep \/ ExtractDone
    \/ Render \/ RenderFails \/ ReinsertStep \/ ReinsertDone
    \/ OpenOutput \/ WriteOutput

\* ------------------------------------------------------------------ convert_md_to_pdf
\* lines 7-8
PdfRead ==
    /\ pdf_pc = "start"
    /\ pdf_markdown' = source
    /\ pdf_pc' = "render"
    /\ UNCHANGED <<convVars, openVars, pdf_html, pdf_file>>

\* lines 11-14: the renderer call of the PDF script
PdfRenderHtml(text) == Markdown(text)

PdfRender ==
    /\ pdf_pc = "render"
    /\ pdf_html' = PdfRenderHtml(pdf_markdown)
    /\ pdf_pc' = "layout"
    /\ UNCHANGED <<convVars, openVars, pdf_markdown, pdf_file>>

\* lines 58-69: the document around the rendered content
PdfFullHtml(content) == <<"<html><head>", "<body>">> \o content \o <<"</body></html>">>

\* line 72: the layout renderer is fed the document and writes the PDF
PdfWrite ==
    /\ pdf_pc = "layout"
    /\ pdf_file' = <<"pdf">> \o PdfFullHtml(pdf_html)
    /\ pdf_pc' = "done"
    /\ UNCHANGED <<convVars, openVars, pdf_markdown, pdf_html>>

ConvertPdf == PdfRead \/ PdfRender \/ PdfWrite

\* the two converters are separate programs: their steps interleave freely
Next == ConvertHtml \/ ConvertPdf

Spec == Init /\ [][Next]_vars

SpecPlain == InitPlain /\ [][Next]_vars

\* ------------------------------------------------------------------ properties
\* the extraction loop has finished
Extracted == pc \in {"render", "reinsert", "open", "write", "done"}

\* the re-insertion loop has finished
Reinserted == pc \in {"open", "write", "done"}

N == Len(mermaid_blocks)

Range(f) == {f[k] : k \in DOMAIN f}

RECURSIVE Sum(_)
Sum(f) == IF f = <<>> THEN 0 ELSE Head(f) + Sum(Tail(f))

RECURSIVE DivEndFrom(_, _)
DivEndFrom(s, q) ==
    IF q + 1 > Len(s) THEN 0
    ELSE IF s[q] = NL /\ s[q + 1] = DIVCLOSE THEN q
    ELSE DivEndFrom(s, q + 1)

\* the bodies of the mermaid container elements of an HTML text, in order
RECURSIVE ContainersFrom(_, _)
ContainersFrom(s, p) ==
    IF p > Len(s) THEN <<>>
    ELSE LET q == IF MatchAt(s, p, <<DIVOPEN, NL>>) THEN DivEndFrom(s, p + 2) ELSE 0
         IN  IF q # 0 THEN <<SubSeq(s, p + 2, q - 1)>> \o ContainersFrom(s, q + 2)
             ELSE ContainersFrom(s, p + 1)

Containers(s) == ContainersFrom(s, 1)

\* C1: the output holds exactly N container elements, and the k-th container
\* wraps exactly the source text of the k-th diagram block.
C1_ContainersAreBlocks ==
    Reinserted =>
        /\ Count(html_content, <<DIVOPEN>>) = N
        /\ Containers(html_content) = mermaid_blocks

\* C2: the extraction pass inserts as many placeholder tokens as the scan found
\* blocks, and the re-insertion step of each index rewrites exactly the tokens
\* inserted for that index, once each.
C2_PlaceholderBookkeeping ==
    Reinserted =>
        /\ Sum(inserted) = N
        /\ \A k \in 1..N : replaced[k] = inserted[k]

\* C3: when two diagram blocks hold the same source text, each of them is
\* replaced by the placeholder of its own index: the step of each index rewrites
\* exactly one occurrence.
C3_PerIndexReplacement ==
    Extracted =>
        \A j \in 1..N : \A k \in 1..N :
            (j # k /\ mermaid_blocks[j] = mermaid_blocks[k]) =>
                (inserted[j] = 1 /\ inserted[k] = 1)

\* C4: round trip: every block's recorded source text is the body of a container
\* of the final HTML, and every container body is a recorded source text.
C4_RoundTrip ==
    Reinserted =>
        /\ \A k \in 1..N : mermaid_blocks[k] \in Range(Containers(html_content))
        /\ Range(Containers(html_content)) \subseteq Range(mermaid_blocks)

\* C5: when the scan finds no diagram block, the rendered content is the
\* renderer's output on the unmodified input.
C5_PassThrough ==
    (Reinserted /\ N = 0) => html_content = Markdown(source)

\* C5 witness: a finished run without diagram blocks whose input holds text that
\* looks like a placeholder and a fenced block of another language.
C5_Witness ==
    /\ pc = "done"
    /\ N = 0
    /\ Occurs(<<PH>>, source)
    /\ Occurs(<<F, PY>>, source)
    /\ Occurs(<<PH>>, html_file.content)

\* C6: after a failed read or a failed rendering the run has stopped and the
\* HTML file is as it was; the file is touched only once re-insertion is over.
C6_WholeOrNothing ==
    /\ pc = "error" => (html_file \in {NoFile, StaleFile} /\ ~ENABLED ConvertHtml)
    /\ html_file \notin {NoFile, StaleFile} => pc \in {"write", "done"}

\* C6 witness: the renderer raised after the source was read, with an HTML file
\* of an earlier run in place.
C6_Witness ==
    /\ pc = "error"
    /\ markdown_content # <<>>
    /\ N > 0
    /\ html_file = StaleFile

\* C7 as stated: the content the PDF script renders equals the content of the
\* HTML script, whatever the input.
C7_PdfEquivalent ==
    (Reinserted /\ pdf_pc \in {"layout", "done"}) => pdf_html = html_content

\* C7 as amended: the two contents are equal when the scan finds no diagram block.
C7_PdfEquivalentNoDiagram ==
    (Reinserted /\ pdf_pc \in {"layout", "done"} /\ N = 0) => pdf_html = html_content

\* C7 witness: both scripts have rendered a source without diagram blocks that
\* holds a fenced block of another language.
C7_Witness ==
    /\ pc = "done"
    /\ pdf_pc = "done"
    /\ N = 0
    /\ Occurs(<<F, PY>>, source)

\* C8: no placeholder is a substring of another index's placeholder, and a
\* re-insertion step leaves the placeholders of the indices still to come intact.
C8_PlaceholdersDistinct ==
    /\ Extracted =>
           \A j \in 0..(N - 1) : \A k \in 0..(N - 1) :
               j # k => ~Occurs(Placeholder(j), Placeholder(k))
    /\ pc = "reinsert" =>
           \A k \in (i + 1)..N :
               Count(html_content, Placeholder(k - 1)) >= inserted[k]

\* a mermaid fence opening starts at p
OpeningAt(s, p) == MatchAt(s, p, OPENING)

\* a line starts with a fence at q
FenceLineAt(s, q) == q >= 1 /\ q <= Len(s) /\ s[q] = F /\ (q > 1 => s[q - 1] = NL)

\* a line holds a fence alone at q
BareFenceLineAt(s, q) == FenceLineAt(s, q) /\ (q = Len(s) \/ s[q + 1] = NL)

\* the fence at p can close an earlier mermaid opening: one with no
\* newline-and-fence between its first line and p
Consumable(s, p) ==
    /\ p > 1
    /\ s[p - 1] = NL
    /\ \E o \in 1..(p - 4) :
           /\ OpeningAt(s, o)
           /\ \A q \in (o + 3)..(p - 2) : ~MatchAt(s, q, CLOSING)

\* the opening at p has a closing fence of its own: the next fence line after
\* it holds a fence alone
HasOwnClosing(s, p) ==
    \E q \in (p + 3)..Len(s) :
        /\ BareFenceLineAt(s, q)
        /\ \A r \in (p + 1)..(q - 1) : ~FenceLineAt(s, r)

\* no later line starts with a fence
NoFenceLineAfter(s, p) == \A q \in (p + 1)..Len(s) : ~FenceLineAt(s, q)

\* the scan made no block of the opening at p: every recorded block lies wholly
\* in the text before p
NoIndexFor(p) ==
    \A k \in 1..N : Occurs(Fenced(mermaid_blocks[k]), SubSeq(source, 1, p - 1))

\* the text from p on is the end of the text handed to the renderer
ReachesRenderer(p) ==
    LET n == Len(source) - p + 1
        m == Len(markdown_content)
    IN  m >= n /\ SubSeq(markdown_content, m - n + 1, m) = SubSeq(source, p, Len(source))

\* C9 as stated: a mermaid opening with no closing fence of its own gets no
\* index and reaches the renderer unchanged, whatever follows it.
C9_UnterminatedLeftAlone ==
    Extracted =>
        \A p \in 1..Len(source) :
            (OpeningAt(source, p) /\ ~Consumable(source, p)
             /\ ~HasOwnClosing(source, p))
                => (NoIndexFor(p) /\ ReachesRenderer(p))

\* C9 as amended: the same, for an opening after which no line starts with a
\* fence; its text reaches the renderer unchanged when the source holds no
\* text that looks like a placeholder.
C9_UnterminatedLastFence ==
    Extracted =>
        \A p \in 1..Len(source) :
            (OpeningAt(source, p) /\ ~Consumable(source, p)
             /\ NoFenceLineAfter(source, p))
                => /\ NoIndexFor(p)
                   /\ ~Occurs(<<PH>>, source) => ReachesRenderer(p)

\* C9 witness: a diagram block was extracted and an unterminated opening
\* follows it, with further text after the opening.
C9_Witness ==
    /\ pc = "done"
    /\ N = 1
    /\ \E p \in 2..Len(source) :
           /\ OpeningAt(source, p)
           /\ ~Consumable(source, p)
           /\ NoFenceLineAfter(source, p)
           /\ Len(source) >= p + 6
           /\ Occurs(SubSeq(source, p, Len(source)), html_file.content)

\* ------------------------------------------------------------------ open_html_for_pdf
\* html_file, line 32, as its path names
HtmlPathNames == <<"Documentation", "STM32H573I-DK_Migration_Roadmap.html">>

\* os.sep
Sep(system) == IF system = "Windows" THEN "\\" ELSE "/"

RECURSIVE JoinNames(_, _)
JoinNames(names, sep) ==
    IF names = <<>> THEN <<>> ELSE <<sep, Head(names)>> \o JoinNames(Tail(names), sep)

\* os.path.abspath(path): the working directory joined with the path, written
\* with the platform's separator (and drive)
AbsPath(system, dir, names) ==
    (IF system = "Windows" THEN <<"C:">> ELSE <<>>)
        \o JoinNames(dir \o names, Sep(system))

\* a URL built without turning the backslashes
FileUrlKeepBackslash(system, abs_path) ==
    IF system = "Windows"
    THEN <<"file:///">> \o abs_path
    ELSE <<"file://">> \o abs_path

\* lines 14-17
FileUrl(system, abs_path) ==
    IF system = "Windows"
    THEN <<"file:///">> \o Replace(abs_path, <<"\\">>, <<"/">>)
    ELSE <<"file://">> \o abs_path

\* line 35: the file is missing; lines 36-37 print the error
CheckMissing ==
    /\ o_pc = "start"
    /\ ~html_file.exists
    /\ exists_at_check' = "missing"
    /\ o_pc' = "missing"
    /\ UNCHANGED <<convVars, pdfVars, platform, cwd, urls, folders, exit_status>>

\* line 38
ExitMissing ==
    /\ o_pc = "missing"
    /\ exit_status' = "exit 1"
    /\ o_pc' = "exited"
    /\ UNCHANGED <<convVars, pdfVars, platform, cwd, exists_at_check, urls, folders>>

\* line 35: the file is there
CheckFound ==
    /\ o_pc = "start"
    /\ html_file.exists
    /\ exists_at_check' = "found"
    /\ o_pc' = "found"
    /\ UNCHANGED <<convVars, pdfVars, platform, cwd, urls, folders, exit_status>>

\* lines 41, 11-20: open_html_file hands the URL to the browser
OpenBrowser ==
    /\ o_pc = "found"
    /\ urls' = Append(urls, FileUrl(platform, AbsPath(platform, cwd, HtmlPathNames)))
    /\ o_pc' = "instructions"
    /\ UNCHANGED <<convVars, pdfVars, platform, cwd, exists_at_check, folders,
                   exit_status>>

\* lines 23-29
PrintInstructions ==
    /\ o_pc = "instructions"
    /\ o_pc' = "folder"
    /\ UNCHANGED <<convVars, pdfVars, platform, cwd, exists_at_check, urls, folders,
                   exit_status>>

\* lines 44-45: on Windows the Documentation folder is opened
OpenFolder ==
    /\ o_pc = "folder"
    /\ platform = "Windows"
    /\ folders' = Append(folders, AbsPath(platform, cwd, <<"Documentation">>))
    /\ exit_status' = "exit 0"
    /\ o_pc' = "finished"
    /\ UNCHANGED <<convVars, pdfVars, platform, cwd, exists_at_check, urls>>

\* line 44: elsewhere the script ends
SkipFolder ==
    /\ o_pc = "folder"
    /\ platform # "Windows"
    /\ exit_status' = "exit 0"
    /\ o_pc' = "finished"
    /\ UNCHANGED <<convVars, pdfVars, platform, cwd, exists_at_check, urls, folders>>

OpenHtmlForPdf ==
    \/ CheckMissing \/ ExitMissing \/ CheckFound \/ OpenBrowser
    \/ PrintInstructions \/ OpenFolder \/ SkipFolder

\* the sources the HTML converter is given while the browser script runs
OpenDocs == {SegText, SegBlockA}

InitBrowse == InitConvert(OpenDocs) /\ InitOpen(WorkDirs)

\* the browser script runs while the HTML converter may be writing the file
NextBrowse == ConvertHtml \/ OpenHtmlForPdf

SpecOpen == InitBrowse /\ [][NextBrowse]_vars

RECURSIVE SlashPath(_)
SlashPath(names) ==
    IF names = <<>> THEN <<>> ELSE <<"/", Head(names)>> \o SlashPath(Tail(names))

\* C10: the browser is launched only when the file was there at the check, once,
\* with the file URL of the absolute path; a missing file ends the script with
\* status 1 and nothing opened; the folder is opened on Windows only, after the
\* browser.
C10_BrowserOnlyIfExists ==
    /\ Len(urls) <= 1
    /\ Len(folders) <= 1
    /\ urls # <<>> => exists_at_check = "found"
    /\ exists_at_check = "missing" =>
           (urls = <<>> /\ folders = <<>> /\ o_pc \in {"missing", "exited"})
    /\ o_pc = "exited" => exit_status = "exit 1"
    /\ o_pc \in {"instructions", "folder", "finished"} =>
           /\ Len(urls) = 1
           /\ urls[1] = IF platform = "Windows"
                        THEN <<"file:///", "C:">> \o SlashPath(cwd \o HtmlPathNames)
                        ELSE <<"file://">> \o SlashPath(cwd \o HtmlPathNames)
    /\ folders # <<>> => (platform = "Windows" /\ Len(urls) = 1 /\ o_pc = "finished")
    /\ (o_pc = "finished" /\ platform = "Windows") => Len(folders) = 1

\* C10 witness: on Windows, in a nested working directory, the browser and then
\* the folder were opened for a file the converter wrote.
C10_Witness ==
    /\ o_pc = "finished"
    /\ platform = "Windows"
    /\ Len(cwd) = 2
    /\ Len(urls) = 1
    /\ Len(folders) = 1
    /\ pc = "done"

====
